---------------------------- MODULE Spec2Model ----------------------------
(***************************************************************************)
(* Model of the retrieval core of ask-spurgeon:                            *)
(*   - PDFProcessor.chunk_text   (src/pdf_processor.py)                    *)
(*   - VectorDatabase            (src/vector_db.py)                        *)
(*   - LLMClient.create_rag_prompt (src/llm_client.py)                     *)
(*   - DocumentPipeline.process_and_index_documents                        *)
(*                               (src/document_pipeline.py)                *)
(* Texts are sequences of one-character strings, positions are 0-based as  *)
(* in Python, and a slice text[s:e] is SubSeq(text, s+1, e).               *)
(***************************************************************************)
EXTENDS Integers, Sequences, FiniteSets, TLC

VARIABLES
    \* ---- PDFProcessor.chunk_text: arguments, locals, position ----
    text,          \* argument text
    chunk_size,    \* argument chunk_size
    overlap,       \* argument overlap
    start,         \* local start
    chunks,        \* local chunks (the list that is returned)
    spans,         \* for each element of chunks, the range <<lo, hi>> of text it was cut from
    windows,       \* the range <<start, end>> of every iteration of the scan loop
    iters,         \* number of iterations of the scan loop so far
    pc,            \* "idle" | "call" | "loop" | "done"
    \* ---- VectorDatabase: fields, files, last call ----
    embedding_dimension,   \* self.embedding_dimension
    self_index,            \* self.index: NoIndex (None) or the FAISS index, its dimension and vectors
    self_chunks,           \* self.chunks
    self_documents,        \* self.documents
    disk,                  \* the three files under db_path
    call,                  \* the last VectorDatabase call: operation, arguments, outcome
    \* ---- VectorDatabase: calls in progress, and the process around the instance ----
    save_pc,               \* position inside save(): "idle" | "index" | "metadata" | "chunks" (the file written next)
    damaged,               \* the files under db_path that a stopped save() left half-written
    snapshots,             \* the fields of the instance at the start of every save() that wrote
    prior,                 \* the instance that the current one replaced: its get_stats(), chunks, whether it had just saved
    restarts,              \* number of instances constructed after the first
    adding,                \* the add_documents call in progress on another thread, or NoAdd
    \* ---- LLMClient.create_rag_prompt: the last call ----
    rag

chunkVars == <<text, chunk_size, overlap, start, chunks, spans, windows, iters, pc>>
dbVars == <<embedding_dimension, self_index, self_chunks, self_documents, disk, call>>
auxVars == <<save_pc, damaged, snapshots, prior, restarts, adding, rag>>
vars == <<chunkVars, dbVars, auxVars>>

\* ------------------------------------------------------------------ bounds
MaxLen == 3          \* longest text given to chunk_text
MaxChunkSize == 2    \* largest chunk_size
MaxOverlap == 1      \* largest overlap
MaxVectors == 2      \* most vectors the index holds
MaxBatch == 1        \* most rows / chunks / records in one add_documents call
MaxDim == 2          \* largest vector dimension
MaxK == 3            \* largest k given to search

None == "None"

Max(a, b) == IF a >= b THEN a ELSE b
Min(a, b) == IF a <= b THEN a ELSE b

\* =====================================================================
\* PDFProcessor.chunk_text
\* =====================================================================
Chars == {"a", " ", ".", "!", "?"}

\* All texts of length 0..n
RECURSIVE TextsUpTo(_)
TextsUpTo(n) ==
    IF n = 0 THEN {<<>>}
    ELSE LET shorter == TextsUpTo(n - 1)
         IN  shorter \cup {Append(t, c) : t \in {s \in shorter : Len(s) = n - 1}, c \in Chars}

\* text[s:e]
Slice(t, s, e) == SubSeq(t, s + 1, e)

\* str.rfind(ch, s, e): the highest position p, s <= p < e, with t[p] = ch, else -1
Rfind(t, ch, s, e) ==
    LET hits == {p \in Max(s, 0)..(Min(e, Len(t)) - 1) : t[p + 1] = ch}
    IN  IF hits = {} THEN -1 ELSE CHOOSE p \in hits : \A q \in hits : q <= p

\* str.strip() of text[s:e], as the range <<lo, hi>> that is left (lo = hi when nothing is)
StripRange(t, s, e) ==
    LET solid == {p \in Max(s, 0)..(Min(e, Len(t)) - 1) : t[p + 1] # " "}
    IN  IF solid = {} THEN <<e, e>>
        ELSE <<CHOOSE p \in solid : \A q \in solid : p <= q,
               (CHOOSE p \in solid : \A q \in solid : q <= p) + 1>>

\* the boundary tests written with >= instead of >: a boundary found at start itself
\* is taken
WindowEndAtStart(t, s, size) ==
    LET end == Min(s + size, Len(t))
        sentence_end == Max(Rfind(t, ".", s, end), Max(Rfind(t, "!", s, end), Rfind(t, "?", s, end)))
        last_space == Rfind(t, " ", s, end)
    IN  IF end < Len(t)
        THEN IF sentence_end >= s THEN sentence_end + 1
             ELSE IF last_space >= s THEN last_space
             ELSE end
        ELSE end

\* the end of the window that starts at s: the size cut, moved back to a sentence
\* terminator or else to a space
WindowEnd(t, s, size) ==
    LET end == Min(s + size, Len(t))
        sentence_end == Max(Rfind(t, ".", s, end), Max(Rfind(t, "!", s, end), Rfind(t, "?", s, end)))
        last_space == Rfind(t, " ", s, end)
    IN  IF end < Len(t)
        THEN IF sentence_end > s THEN sentence_end + 1
             ELSE IF last_space > s THEN last_space
             ELSE end
        ELSE end

\* new_start = end - overlap, without the forced advance
NewStartNoProgress(s, end, ov) == end - ov

\* new_start one position too far: the character at end is never scanned
NewStartPastEnd(s, end, ov) ==
    IF end - ov + 1 <= s THEN s + 1 ELSE end - ov + 1

\* the next window start, forced to advance
NewStart(s, end, ov) ==
    IF end - ov <= s THEN s + 1 ELSE end - ov

\* no call of chunk_text yet
ChunkIdle ==
    /\ text = <<>> /\ chunk_size = 0 /\ overlap = 0 /\ start = 0
    /\ chunks = <<>> /\ spans = <<>> /\ windows = <<>> /\ iters = 0 /\ pc = "idle"

\* chunk_text(text, chunk_size, overlap) is called
ChunkCall ==
    /\ pc = "idle"
    /\ text' \in TextsUpTo(MaxLen)
    /\ chunk_size' \in 0..MaxChunkSize
    /\ overlap' \in 0..MaxOverlap
    /\ pc' = "call"
    /\ UNCHANGED <<start, chunks, spans, windows, iters>>
    /\ UNCHANGED dbVars
    /\ UNCHANGED auxVars

\* if len(text) <= chunk_size: return [text]
ChunkReturnWhole ==
    /\ pc = "call"
    /\ Len(text) <= chunk_size
    /\ chunks' = <<text>>
    /\ spans' = <<(<<0, Len(text)>>)>>
    /\ pc' = "done"
    /\ UNCHANGED <<text, chunk_size, overlap, start, windows, iters>>
    /\ UNCHANGED dbVars
    /\ UNCHANGED auxVars

\* chunks = []; start = 0; the loop is entered
ChunkBegin ==
    /\ pc = "call"
    /\ Len(text) > chunk_size
    /\ chunks' = <<>>
    /\ spans' = <<>>
    /\ start' = 0
    /\ pc' = IF 0 < Len(text) THEN "loop" ELSE "done"
    /\ UNCHANGED <<text, chunk_size, overlap, windows, iters>>
    /\ UNCHANGED dbVars
    /\ UNCHANGED auxVars

\* one iteration of: while start < len(text)
ChunkLoopIter ==
    /\ pc = "loop"
    /\ start < Len(text)
    /\ iters <= MaxLen + 1
    /\ LET end == WindowEnd(text, start, chunk_size)
           kept == StripRange(text, start, end)
           chunk == Slice(text, kept[1], kept[2])
           new_start == NewStart(start, end, overlap)
       IN  /\ IF chunk # <<>>
              THEN /\ chunks' = Append(chunks, chunk)
                   /\ spans' = Append(spans, kept)
              ELSE UNCHANGED <<chunks, spans>>
           /\ windows' = Append(windows, <<start, end>>)
           /\ start' = new_start
           /\ pc' = IF new_start >= Len(text) THEN "done" ELSE "loop"
    /\ iters' = iters + 1
    /\ UNCHANGED <<text, chunk_size, overlap>>
    /\ UNCHANGED dbVars
    /\ UNCHANGED auxVars

\* a step of a call that is running
ChunkRun ==
    \/ ChunkReturnWhole
    \/ ChunkBegin
    \/ ChunkLoopIter

ChunkNext ==
    \/ ChunkCall
    \/ ChunkRun

\* =====================================================================
\* VectorDatabase
\* =====================================================================
Vals == {0, 1}                      \* components of the vectors given to the index
ChunkTexts == {"c1", "c2"}          \* chunk texts the caller supplies
Filenames == {"f1", "f2"}           \* 'filename' of the metadata records the caller supplies

\* the unit vectors of dimension d (the embedding step hands over normalized vectors)
Vectors(d) == {v \in [1..d -> Vals] : Cardinality({i \in 1..d : v[i] = 1}) = 1}

\* sequences over S of length 0..n
SeqsUpTo(S, n) == UNION {[1..m -> S] : m \in 0..n}

\* numpy arrays of shape (n, d), n <= MaxBatch
Embeddings == {[d |-> d, rows |-> r] : d \in 1..MaxDim, r \in {<<>>}} \cup
              UNION {{[d |-> d, rows |-> r] : r \in SeqsUpTo(Vectors(d), MaxBatch) \ {<<>>}} : d \in 1..MaxDim}

MetadataRecords == {[filename |-> f] : f \in Filenames}

RECURSIVE Dot(_, _)
\* inner product, the score of faiss.IndexFlatIP
Dot(u, v) == IF Len(u) = 0 THEN 0 ELSE u[1] * v[1] + Dot(Tail(u), Tail(v))

\* self.index.ntotal
Ntotal(ix) == Len(ix.vecs)

\* self.index = None
NoIndex == [allocated |-> FALSE, d |-> 0, vecs |-> <<>>]

\* faiss.IndexFlatIP(self.embedding_dimension), CPU or GPU
create_index == [allocated |-> TRUE, d |-> embedding_dimension, vecs |-> <<>>]

\* index.search(query, kk): the positions (0-based) of kk best-scoring vectors, best
\* first. FAISS documents no order among equal scores, and create_index takes the CPU
\* or the GPU index, so every order of a tie is an outcome.
FaissSearch(ix, q, kk) ==
    LET n == Ntotal(ix)
        score(i) == Dot(q, ix.vecs[i + 1])
    IN  {r \in [1..kk -> 0..(n - 1)] :
            /\ \A i, j \in 1..kk : i # j => r[i] # r[j]
            /\ \A i \in 1..(kk - 1) : score(r[i]) >= score(r[i + 1])
            /\ \A i \in 1..kk : \A m \in 0..(n - 1) :
                   (\A j \in 1..kk : r[j] # m) => score(m) <= score(r[i])}

RECURSIVE BuildResults(_, _, _, _)
\* the loop of search over zip(scores[0], indices[0]): entries whose position is not
\* below len(self.chunks) are skipped, rank is the position in the FAISS answer.
\* sequence_index is not a key of the result: it records idx for the properties.
BuildResults(ix, q, order, i) ==
    IF i > Len(order) THEN <<>>
    ELSE LET idx == order[i]
             rest == BuildResults(ix, q, order, i + 1)
         IN  IF idx < Len(self_chunks)
             THEN <<[chunk |-> self_chunks[idx + 1],
                     metadata |-> self_documents[idx + 1],
                     similarity_score |-> Dot(q, ix.vecs[idx + 1]),
                     rank |-> i,
                     sequence_index |-> idx]>> \o rest
             ELSE rest

\* self.documents[idx] raises IndexError for some entry of the answer
LookupRaises(order) ==
    \E i \in 1..Len(order) : order[i] < Len(self_chunks) /\ order[i] >= Len(self_documents)

\* get_stats() of an instance with the given fields
StatsOf(ix, chs, docs, dim) ==
    IF ix = NoIndex
    THEN [status |-> "No index loaded", total_documents |-> 0, total_chunks |-> 0,
          vectors_in_index |-> 0, embedding_dimension |-> 0]
    ELSE [status |-> "ok",
          total_documents |-> Cardinality({docs[i].filename : i \in 1..Len(docs)}),
          total_chunks |-> Len(chs),
          vectors_in_index |-> Ntotal(ix),
          embedding_dimension |-> dim]

\* get_stats()
GetStats == StatsOf(self_index, self_chunks, self_documents, embedding_dimension)

\* faiss.index, metadata.json and chunks.pkl, none of them written yet
NoFiles == [index |-> NoIndex,
            metadata |-> [exists |-> FALSE, total_documents |-> 0, total_chunks |-> 0, embedding_dimension |-> 0],
            chunks |-> [exists |-> FALSE, chunks |-> <<>>, documents |-> <<>>]]

\* no add_documents call in progress
NoAdd == [pc |-> "idle", rows |-> <<>>, chunks |-> <<>>, documents |-> <<>>]

\* no instance before the current one
NoPrior == [saved |-> FALSE, stats |-> StatsOf(NoIndex, <<>>, <<>>, 0), chunks |-> <<>>]

\* no create_rag_prompt call yet
NoPrompt == [pc |-> "idle"]

\* nothing in progress, all files whole, first instance, no prompt built
AuxIdle ==
    /\ save_pc = "idle" /\ damaged = {} /\ snapshots = <<>> /\ prior = NoPrior /\ restarts = 0
    /\ adding = NoAdd
    /\ rag = NoPrompt

DBInit ==
    /\ embedding_dimension \in 1..MaxDim
    /\ self_index = NoIndex
    /\ self_chunks = <<>>
    /\ self_documents = <<>>
    /\ disk = NoFiles
    /\ call = [op |-> "init", arg |-> <<>>, raised |-> FALSE, ret |-> None]

\* add_documents(embeddings, chunks, document_metadata)
AddDocuments(embeddings, in_chunks, document_metadata) ==
    LET ix == IF self_index = NoIndex THEN create_index ELSE self_index
        arg == <<embeddings.d, Len(embeddings.rows), Len(in_chunks), Len(document_metadata)>>
    IN  /\ Ntotal(ix) + Len(embeddings.rows) <= MaxVectors
        /\ Len(self_chunks) + Len(in_chunks) <= MaxVectors
        /\ Len(self_documents) + Len(document_metadata) <= MaxVectors
        /\ IF embeddings.d # ix.d
           THEN \* index.add asserts the dimension
                /\ self_index' = ix
                /\ UNCHANGED <<self_chunks, self_documents>>
                /\ call' = [op |-> "add", arg |-> arg, raised |-> TRUE, ret |-> None]
           ELSE /\ self_index' = [ix EXCEPT !.vecs = @ \o embeddings.rows]
                /\ self_chunks' = self_chunks \o in_chunks
                /\ self_documents' = self_documents \o document_metadata
                /\ call' = [op |-> "add", arg |-> arg, raised |-> FALSE, ret |-> None]
        /\ UNCHANGED <<embedding_dimension, disk>>
        /\ UNCHANGED chunkVars
        /\ UNCHANGED auxVars

\* search(query_embedding, k): every outcome it can have, raised or returned
SearchOutcomes(query_embedding, k) ==
    IF self_index = NoIndex \/ Ntotal(self_index) = 0
    THEN {[raised |-> FALSE, ret |-> <<>>]}
    ELSE IF Len(query_embedding) # self_index.d
    THEN \* index.search asserts the dimension
         {[raised |-> TRUE, ret |-> None]}
    ELSE {IF LookupRaises(order)
          THEN [raised |-> TRUE, ret |-> None]
          ELSE [raised |-> FALSE, ret |-> BuildResults(self_index, query_embedding, order, 1)] :
             order \in FaissSearch(self_index, query_embedding, Min(k, Ntotal(self_index)))}

\* search(query_embedding, k)
Search(query_embedding, k) ==
    /\ \E o \in SearchOutcomes(query_embedding, k) :
           call' = [op |-> "search", arg |-> <<Len(query_embedding), k>>,
                    raised |-> o.raised, ret |-> o.ret]
    /\ UNCHANGED <<embedding_dimension, self_index, self_chunks, self_documents, disk>>
    /\ UNCHANGED chunkVars
    /\ UNCHANGED auxVars

\* save()
Save ==
    /\ IF self_index = NoIndex
       THEN UNCHANGED disk
       ELSE disk' = [index |-> self_index,
                     metadata |-> [exists |-> TRUE,
                                   total_documents |-> Cardinality({self_documents[i].filename : i \in 1..Len(self_documents)}),
                                   total_chunks |-> Len(self_chunks),
                                   embedding_dimension |-> embedding_dimension],
                     chunks |-> [exists |-> TRUE, chunks |-> self_chunks, documents |-> self_documents]]
    /\ call' = [op |-> "save", arg |-> <<>>, raised |-> FALSE, ret |-> None]
    /\ UNCHANGED <<embedding_dimension, self_index, self_chunks, self_documents>>
    /\ UNCHANGED chunkVars
    /\ UNCHANGED auxVars

\* load()
Load ==
    /\ IF ~disk.index.allocated \/ ~disk.metadata.exists \/ ~disk.chunks.exists
       THEN /\ UNCHANGED <<self_index, self_chunks, self_documents>>
            /\ call' = [op |-> "load", arg |-> <<>>, raised |-> FALSE, ret |-> FALSE]
       ELSE IF "index" \in damaged
       THEN \* faiss.read_index raises before self.index is assigned; except: return False
            /\ UNCHANGED <<self_index, self_chunks, self_documents>>
            /\ call' = [op |-> "load", arg |-> <<>>, raised |-> FALSE, ret |-> FALSE]
       ELSE IF "metadata" \in damaged \/ "chunks" \in damaged
       THEN \* json.load or pickle.load raises after self.index was assigned; except: return False
            /\ self_index' = disk.index
            /\ UNCHANGED <<self_chunks, self_documents>>
            /\ call' = [op |-> "load", arg |-> <<>>, raised |-> FALSE, ret |-> FALSE]
       ELSE /\ self_index' = disk.index
            /\ self_chunks' = disk.chunks.chunks
            /\ self_documents' = disk.chunks.documents
            /\ call' = [op |-> "load", arg |-> <<>>, raised |-> FALSE, ret |-> TRUE]
    /\ UNCHANGED <<embedding_dimension, disk>>
    /\ UNCHANGED chunkVars
    /\ UNCHANGED auxVars

DBNext ==
    \/ \E e \in Embeddings, c \in SeqsUpTo(ChunkTexts, MaxBatch), m \in SeqsUpTo(MetadataRecords, MaxBatch) :
           AddDocuments(e, c, m)
    \/ \E d \in 1..MaxDim : \E q \in Vectors(d), k \in 1..MaxK : Search(q, k)
    \/ Save
    \/ Load

\* =====================================================================
\* Specifications
\* =====================================================================
\* one call of chunk_text on any bounded input
ChunkInit == ChunkIdle /\ DBInit /\ AuxIdle /\ embedding_dimension = 1
ChunkSpec == ChunkInit /\ [][ChunkNext]_vars

\* the same with the call scheduled: chunk_text is synchronous, a call that can take
\* a step takes it
ChunkFairSpec == ChunkSpec /\ WF_vars(ChunkRun)

\* one VectorDatabase instance under any sequence of calls
Init == ChunkIdle /\ DBInit /\ AuxIdle
Next == DBNext
Spec == Init /\ [][Next]_vars

\* =====================================================================
\* Properties of chunk_text
\* =====================================================================
\* the contract's precondition: chunk_size > overlap >= 0
ValidParams == chunk_size > overlap /\ overlap >= 0

\* positions of text covered by some returned chunk
Covered == {p \in 0..(Len(text) - 1) : \E i \in 1..Len(spans) : spans[i][1] <= p /\ p < spans[i][2]}

\* positions of the input with surrounding whitespace trimmed
TrimmedPositions ==
    LET r == StripRange(text, 0, Len(text)) IN r[1]..(r[2] - 1)

\* C1: for chunk_size > overlap >= 0 chunk_text terminates; the scan loop runs at most
\* len(text) + 1 times, because every iteration moves start forward by at least 1.
C1_TerminatesWithinLen ==
    /\ [](ValidParams => iters <= Len(text) + 1)
    /\ [][(ValidParams /\ pc = "loop") => start' >= start + 1]_vars
    /\ ((pc = "call" /\ ValidParams) ~> pc = "done")

\* C1 witness: a finished call in which the advance was forced (end - overlap <= start)
\* and the loop ran once per character of the longest text
C1_Witness ==
    /\ ValidParams /\ pc = "done"
    /\ Len(text) = MaxLen /\ iters = Len(text)
    /\ \E i \in 1..Len(windows) : windows[i][2] - overlap <= windows[i][1]

\* C2 as stated: every character position of the trimmed input lies inside some
\* returned chunk.
C2_NoCharacterDropped ==
    (pc = "done" /\ ValidParams) => TrimmedPositions \subseteq Covered

\* C2 as amended: every non-whitespace character position of the input lies inside
\* some returned chunk (whitespace at the edge of a scan window is trimmed away).
C2_NoSolidCharacterDropped ==
    (pc = "done" /\ ValidParams) =>
        /\ \A p \in 0..(Len(text) - 1) : text[p + 1] # " " => p \in Covered
        /\ \A i \in 1..Len(chunks) : chunks[i] = Slice(text, spans[i][1], spans[i][2])

\* C2 witness: a finished scan of several chunks in which a space inside the trimmed
\* text is in no chunk
C2_Witness ==
    /\ pc = "done" /\ ValidParams /\ Len(chunks) >= 2
    /\ \E p \in TrimmedPositions : p \notin Covered

\* consecutive chunks are cut from disjoint ranges, in order
SpansDisjoint == \A i \in 1..(Len(spans) - 1) : spans[i][2] <= spans[i + 1][1]

\* C3 as stated: with overlap = 0 the ranges of consecutive chunks are disjoint and,
\* in order, cover the whole (trimmed) input text.
C3_DisjointAndExhaustive ==
    (pc = "done" /\ ValidParams /\ overlap = 0) =>
        (SpansDisjoint /\ TrimmedPositions \subseteq Covered)

\* C3 as amended: with overlap = 0 the scan windows are disjoint, adjacent and cover
\* the whole input, and the chunks, each its window without surrounding whitespace,
\* are disjoint, in order, and leave out nothing but spaces.
C3_WindowsTileChunksDisjoint ==
    (pc = "done" /\ ValidParams /\ overlap = 0) =>
        /\ SpansDisjoint
        /\ \A p \in 0..(Len(text) - 1) : p \notin Covered => text[p + 1] = " "
        /\ iters > 0 =>
              /\ windows[1][1] = 0
              /\ windows[Len(windows)][2] = Len(text)
              /\ \A i \in 1..(Len(windows) - 1) : windows[i][2] = windows[i + 1][1]
              /\ \A i \in 1..Len(windows) : windows[i][1] < windows[i][2]

\* C3 witness: overlap = 0, several chunks, and a space between two of them left out
C3_Witness ==
    /\ pc = "done" /\ ValidParams /\ overlap = 0 /\ Len(chunks) >= 2
    /\ \E i \in 1..(Len(spans) - 1) : spans[i][2] < spans[i + 1][1]

\* C4: when len(text) <= chunk_size the result is the single trimmed input, and the
\* empty sequence for empty input.
C4_ShortTextTrimmed ==
    (pc = "done" /\ Len(text) <= chunk_size) =>
        LET r == StripRange(text, 0, Len(text))
        IN  IF text = <<>> THEN chunks = <<>>
            ELSE chunks = <<Slice(text, r[1], r[2])>>

\* =====================================================================
\* Properties of VectorDatabase
\* =====================================================================
\* C5: in every reachable state the index, the chunk store and the metadata store
\* hold the same number of entries.
C5_LengthsAgree ==
    /\ Ntotal(self_index) = Len(self_chunks)
    /\ Len(self_chunks) = Len(self_documents)

\* C6: add_documents with sequences of unequal lengths fails and leaves the vector
\* count unchanged.
C6_MismatchedAddRejected ==
    [][(call'.op = "add" /\ ~(call'.arg[2] = call'.arg[3] /\ call'.arg[3] = call'.arg[4]))
          => (call'.raised /\ Ntotal(self_index') = Ntotal(self_index))]_vars

\* the dimension the index is built with
EstablishedDim == IF self_index = NoIndex THEN embedding_dimension ELSE self_index.d

\* C7: add_documents with vectors of another dimension fails and leaves the whole
\* in-memory state as it was, also on the first add of an instance.
C7_DimensionMismatchLeavesState ==
    [][(call'.op = "add" /\ call'.arg[1] # EstablishedDim)
          => /\ call'.raised
             /\ self_index' = self_index
             /\ self_chunks' = self_chunks
             /\ self_documents' = self_documents
             /\ StatsOf(self_index', self_chunks', self_documents', embedding_dimension') = GetStats]_vars

\* C8: search with k >= N on an index of N >= 1 entries returns N results, scores
\* non-increasing.
C8_SearchReturnsAllSorted ==
    (/\ call.op = "search"
     /\ Ntotal(self_index) >= 1
     /\ call.arg[1] = self_index.d
     /\ call.arg[2] >= Ntotal(self_index))
    => /\ ~call.raised
       /\ Len(call.ret) = Ntotal(self_index)
       /\ \A i \in 1..(Len(call.ret) - 1) :
              call.ret[i].similarity_score >= call.ret[i + 1].similarity_score

\* C9: the rank fields of the results of one search are 1, 2, ..., len(results).
C9_RanksContiguous ==
    (call.op = "search" /\ ~call.raised) =>
        \A i \in 1..Len(call.ret) : call.ret[i].rank = i

\* C10: of two results with equal score the one inserted first comes first (stated
\* for an index whose three stores agree in length).
C10_TiesBySequenceIndex ==
    (call.op = "search" /\ ~call.raised /\ C5_LengthsAgree) =>
        \A i, j \in 1..Len(call.ret) :
            (i < j /\ call.ret[i].similarity_score = call.ret[j].similarity_score)
                => call.ret[i].sequence_index < call.ret[j].sequence_index

\* =====================================================================
\* VectorDatabase: save() file by file, the process stopping, fresh instances
\* =====================================================================
MaxSaves == 2        \* most save() calls that write files
MaxRestarts == 1     \* most instances constructed after the first

\* what save() writes into metadata.json
MetadataOf(chs, docs, dim) ==
    [exists |-> TRUE,
     total_documents |-> Cardinality({docs[i].filename : i \in 1..Len(docs)}),
     total_chunks |-> Len(chs),
     embedding_dimension |-> dim]

\* what save() writes into chunks.pkl
PickleOf(chs, docs) == [exists |-> TRUE, chunks |-> chs, documents |-> docs]

\* save() is entered: with no index it returns, else faiss.index is written next
SaveBegin ==
    /\ save_pc = "idle"
    /\ IF self_index = NoIndex
       THEN /\ call' = [op |-> "save", arg |-> <<>>, raised |-> FALSE, ret |-> None]
            /\ UNCHANGED <<save_pc, snapshots>>
       ELSE /\ Len(snapshots) < MaxSaves
            /\ save_pc' = "index"
            /\ snapshots' = Append(snapshots, [index |-> self_index, chunks |-> self_chunks,
                                               documents |-> self_documents])
            /\ UNCHANGED call
    /\ UNCHANGED <<embedding_dimension, self_index, self_chunks, self_documents, disk>>
    /\ UNCHANGED <<damaged, prior, restarts, adding, rag>>
    /\ UNCHANGED chunkVars

\* faiss.write_index(self.index, index_path), in place
SaveWriteIndex ==
    /\ save_pc = "index"
    /\ disk' = [disk EXCEPT !.index = self_index]
    /\ damaged' = damaged \ {"index"}
    /\ save_pc' = "metadata"
    /\ UNCHANGED <<embedding_dimension, self_index, self_chunks, self_documents, call>>
    /\ UNCHANGED <<snapshots, prior, restarts, adding, rag>>
    /\ UNCHANGED chunkVars

\* json.dump(metadata, open(metadata_path, 'w'))
SaveWriteMetadata ==
    /\ save_pc = "metadata"
    /\ disk' = [disk EXCEPT !.metadata = MetadataOf(self_chunks, self_documents, embedding_dimension)]
    /\ damaged' = damaged \ {"metadata"}
    /\ save_pc' = "chunks"
    /\ UNCHANGED <<embedding_dimension, self_index, self_chunks, self_documents, call>>
    /\ UNCHANGED <<snapshots, prior, restarts, adding, rag>>
    /\ UNCHANGED chunkVars

\* pickle.dump({'chunks': ..., 'documents': ...}, open(chunks_path, 'wb')); save() returns
SaveWriteChunks ==
    /\ save_pc = "chunks"
    /\ disk' = [disk EXCEPT !.chunks = PickleOf(self_chunks, self_documents)]
    /\ damaged' = damaged \ {"chunks"}
    /\ save_pc' = "idle"
    /\ call' = [op |-> "save", arg |-> <<>>, raised |-> FALSE, ret |-> None]
    /\ UNCHANGED <<embedding_dimension, self_index, self_chunks, self_documents>>
    /\ UNCHANGED <<snapshots, prior, restarts, adding, rag>>
    /\ UNCHANGED chunkVars

\* the files after the process stopped inside save() while the file named by save_pc
\* was open for writing: that file exists and is truncated
TornDisk ==
    IF save_pc = "index" THEN [disk EXCEPT !.index = self_index]
    ELSE IF save_pc = "metadata"
    THEN [disk EXCEPT !.metadata = MetadataOf(self_chunks, self_documents, embedding_dimension)]
    ELSE [disk EXCEPT !.chunks = PickleOf(self_chunks, self_documents)]

\* the instance is dropped (the process may stop inside save(), between two writes or
\* in the middle of one) and VectorDatabase(db_path, d) is constructed on the same path
Restart(d, torn) ==
    /\ restarts < MaxRestarts
    /\ restarts' = restarts + 1
    /\ prior' = [saved |-> call.op = "save" /\ save_pc = "idle" /\ self_index # NoIndex,
                 stats |-> GetStats,
                 chunks |-> self_chunks]
    /\ IF save_pc # "idle" /\ torn
       THEN /\ disk' = TornDisk
            /\ damaged' = damaged \cup {save_pc}
       ELSE UNCHANGED <<disk, damaged>>
    /\ save_pc' = "idle"
    /\ embedding_dimension' = d
    /\ self_index' = NoIndex
    /\ self_chunks' = <<>>
    /\ self_documents' = <<>>
    /\ call' = [op |-> "construct", arg |-> <<d>>, raised |-> FALSE, ret |-> None]
    /\ UNCHANGED <<snapshots, adding, rag>>
    /\ UNCHANGED chunkVars

\* add_documents as the pipeline calls it: one row of the instance's dimension, with
\* its chunk and its metadata record
AddAligned ==
    /\ save_pc = "idle"
    /\ \E v \in Vectors(embedding_dimension), c \in ChunkTexts, f \in Filenames :
           AddDocuments([d |-> embedding_dimension, rows |-> <<v>>], <<c>>, <<[filename |-> f]>>)

\* load() between calls of save()
LoadIdle == save_pc = "idle" /\ Load

DiskNext ==
    \/ AddAligned
    \/ SaveBegin
    \/ SaveWriteIndex
    \/ SaveWriteMetadata
    \/ SaveWriteChunks
    \/ \E d \in 1..MaxDim, torn \in BOOLEAN : Restart(d, torn)
    \/ LoadIdle

\* instances on one path, one after the other, each under any sequence of aligned
\* adds, saves and loads, the process stopping anywhere
DiskInit == ChunkIdle /\ DBInit /\ AuxIdle
DiskSpec == DiskInit /\ [][DiskNext]_vars

\* C11: after add_documents calls on A and A.save(), a fresh instance B on the same path
\* whose load() runs has a get_stats() identical to A's and the same chunks in order.
C11_RoundTrip ==
    [][(call.op = "construct" /\ prior.saved /\ call'.op = "load")
         => (GetStats' = prior.stats /\ self_chunks' = prior.chunks)]_vars

\* what the instance holds is what some single save() set out to write
LoadedOneSnapshot ==
    \E i \in 1..Len(snapshots) :
        snapshots[i] = [index |-> self_index, chunks |-> self_chunks, documents |-> self_documents]

\* C12: save is atomic with respect to crashes: after the process stopped anywhere inside
\* save(), a load() that succeeds never yields artifacts of different saves, nor a
\* half-written one.
C12_SaveAtomic ==
    (call.op = "load" /\ call.ret = TRUE) => (damaged = {} /\ LoadedOneSnapshot)

\* C13: load fails closed: when load() returns False because an artifact is missing,
\* truncated or corrupt, the index, the chunks and the metadata records are all left
\* as they were; the index is never replaced while the chunks and records are not.
C13_LoadFailsClosed ==
    [][(call'.op = "load" /\ call'.ret = FALSE)
         => UNCHANGED <<self_index, self_chunks, self_documents>>]_vars

\* the three files exist, and the stored vectors are not of the dimension that
\* metadata.json records, or are not as many as the stored chunks
StoredInconsistent ==
    /\ disk.index.allocated /\ disk.metadata.exists /\ disk.chunks.exists
    /\ \/ disk.index.d # disk.metadata.embedding_dimension
       \/ Ntotal(disk.index) # Len(disk.chunks.chunks)

\* C14: load() returns False and leaves the index as it was when the stored vectors'
\* dimension is inconsistent with the embedding_dimension recorded in metadata.json, or
\* the stored vector count with the chunk count.
C14_LoadValidates ==
    [][(call'.op = "load" /\ save_pc = "idle" /\ save_pc' = "idle" /\ StoredInconsistent)
         => (call'.ret = FALSE /\ UNCHANGED self_index)]_vars

\* =====================================================================
\* LLMClient.create_rag_prompt
\* =====================================================================
MaxTok == 2          \* largest token count of one text
MaxBudget == 4       \* largest max_context_tokens
MaxRanked == 3       \* most entries of relevant_chunks

\* the literal system_prompt, one piece of the prompt
SystemPrompt == "system_prompt"

Queries == {"q1", "q2"}

\* entries of relevant_chunks: results of search, of which the prompt reads 'chunk' and
\* metadata['filename']
RankedChunks == {[chunk |-> "c1", metadata |-> [filename |-> "f1"]],
                 [chunk |-> "c2", metadata |-> [filename |-> "f2"]]}

\* chunk_context = f"\n--- From {filename} ---\n{chunk_text}\n", as its pieces
ChunkContext(chunk_data) ==
    <<"\n--- From ", chunk_data.metadata.filename, " ---\n", chunk_data.chunk, "\n">>

\* the token counters: any count for system_prompt alone, for system_prompt + query and
\* for every chunk_context
TokenCounters ==
    [preamble : 0..MaxTok, base : 0..MaxTok,
     context : [{ChunkContext(cd) : cd \in RankedChunks} -> 0..MaxTok]]

\* the budget test written before the chunk is counted
ExceedsBeforeAdding(total_tokens, chunk_tokens, max_context_tokens) ==
    total_tokens > max_context_tokens

\* if total_tokens + chunk_tokens > max_context_tokens
Exceeds(total_tokens, chunk_tokens, max_context_tokens) ==
    total_tokens + chunk_tokens > max_context_tokens

\* context_parts.append written as an insertion at the front
AddPartFront(context_parts, chunk_context) == <<chunk_context>> \o context_parts

\* context_parts.append(chunk_context)
AddPart(context_parts, chunk_context) == Append(context_parts, chunk_context)

RECURSIVE ContextLoop(_, _, _, _, _)

\* continue in place of break: the chunks after the one that does not fit are tried
OnOverflowSkip(relevant_chunks, tok, max_context_tokens, i, acc) ==
    ContextLoop(relevant_chunks, tok, max_context_tokens, i + 1, acc)

\* break
OnOverflow(relevant_chunks, tok, max_context_tokens, i, acc) == acc

\* for i, chunk_data in enumerate(relevant_chunks), from entry i (1-based) on, with
\* acc = [context_parts, total_tokens]
ContextLoop(relevant_chunks, tok, max_context_tokens, i, acc) ==
    IF i > Len(relevant_chunks) THEN acc
    ELSE LET chunk_context == ChunkContext(relevant_chunks[i])
             chunk_tokens == tok.context[chunk_context]
         IN  IF Exceeds(acc.total_tokens, chunk_tokens, max_context_tokens)
             THEN OnOverflow(relevant_chunks, tok, max_context_tokens, i, acc)
             ELSE ContextLoop(relevant_chunks, tok, max_context_tokens, i + 1,
                              [context_parts |-> AddPart(acc.context_parts, chunk_context),
                               total_tokens |-> acc.total_tokens + chunk_tokens])

RECURSIVE Join(_)
\* "".join(parts)
Join(parts) == IF parts = <<>> THEN <<>> ELSE Head(parts) \o Join(Tail(parts))

\* full_prompt = f"{system_prompt + ''.join(context_parts)}\n\nQuestion: {query}\n\nAnswer:"
FullPrompt(context_parts, query) ==
    (<<SystemPrompt>> \o Join(context_parts)) \o <<"\n\nQuestion: ", query, "\n\nAnswer:">>

\* create_rag_prompt(query, relevant_chunks, max_context_tokens) under the token counter tok
CreateRagPrompt(query, relevant_chunks, max_context_tokens, tok) ==
    /\ rag.pc = "idle"
    /\ LET out == ContextLoop(relevant_chunks, tok, max_context_tokens, 1,
                              [context_parts |-> <<>>, total_tokens |-> tok.base])
       IN  rag' = [pc |-> "done", query |-> query, relevant_chunks |-> relevant_chunks,
                   max_context_tokens |-> max_context_tokens, tok |-> tok,
                   context_parts |-> out.context_parts, total_tokens |-> out.total_tokens,
                   prompt |-> FullPrompt(out.context_parts, query)]
    /\ UNCHANGED <<save_pc, damaged, snapshots, prior, restarts, adding>>
    /\ UNCHANGED chunkVars
    /\ UNCHANGED dbVars

PromptNext ==
    /\ rag.pc = "idle"
    /\ \E query \in Queries, relevant_chunks \in SeqsUpTo(RankedChunks, MaxRanked),
          max_context_tokens \in 0..MaxBudget, tok \in TokenCounters :
           CreateRagPrompt(query, relevant_chunks, max_context_tokens, tok)

\* one call of create_rag_prompt on any bounded input, under any token counter
PromptInit == ChunkIdle /\ DBInit /\ AuxIdle /\ embedding_dimension = 1
PromptSpec == PromptInit /\ [][PromptNext]_vars

RECURSIVE CostOf(_, _)
\* the token counts of the given chunk contexts, summed
CostOf(tok, parts) == IF parts = <<>> THEN 0 ELSE tok.context[Head(parts)] + CostOf(tok, Tail(parts))

\* the chunk contexts of the first n entries of relevant_chunks
PrefixContexts(relevant_chunks, n) == [i \in 1..n |-> ChunkContext(relevant_chunks[i])]

\* C15 as stated: the token cost of the preamble plus the included chunks never exceeds
\* max_context_tokens.
C15_PreambleAndChunksWithinBudget ==
    rag.pc = "done" => rag.tok.preamble + CostOf(rag.tok, rag.context_parts) <= rag.max_context_tokens

\* C15 as amended: the running total, count_tokens(system_prompt + query) plus the token
\* counts of the included chunks, is at most max_context_tokens whenever a chunk is
\* included; with no chunk included it is the count of system_prompt + query, whatever
\* max_context_tokens is.
C15_RunningTotalWithinBudget ==
    rag.pc = "done" =>
        /\ rag.total_tokens = rag.tok.base + CostOf(rag.tok, rag.context_parts)
        /\ rag.context_parts # <<>> => rag.total_tokens <= rag.max_context_tokens
        /\ rag.total_tokens <= Max(rag.max_context_tokens, rag.tok.base)

\* C15 witness: a chunk is included and fills the budget exactly, the next one is left out
C15_Witness ==
    /\ rag.pc = "done"
    /\ rag.context_parts # <<>>
    /\ Len(rag.context_parts) < Len(rag.relevant_chunks)
    /\ rag.total_tokens = rag.max_context_tokens
    /\ rag.tok.base > 0

\* C16: the included chunks are exactly the longest prefix of relevant_chunks whose
\* running total fits max_context_tokens: the loop stops at the first chunk that would
\* exceed it, and no later chunk is included even if it would fit.
C16_LongestFittingPrefix ==
    rag.pc = "done" =>
        LET n == Len(rag.context_parts)
            cost(m) == rag.tok.base + CostOf(rag.tok, PrefixContexts(rag.relevant_chunks, m))
        IN  /\ n <= Len(rag.relevant_chunks)
            /\ rag.context_parts = PrefixContexts(rag.relevant_chunks, n)
            /\ \A m \in 1..n : cost(m) <= rag.max_context_tokens
            /\ n < Len(rag.relevant_chunks) => cost(n + 1) > rag.max_context_tokens

\* C16 witness: the first chunk is included, the second does not fit, and the third,
\* which would have fitted, is not included
C16_Witness ==
    /\ rag.pc = "done"
    /\ Len(rag.relevant_chunks) = 3
    /\ Len(rag.context_parts) = 1
    /\ rag.total_tokens + rag.tok.context[ChunkContext(rag.relevant_chunks[3])] <= rag.max_context_tokens

\* C17: the prompt is the fixed preamble, then the included chunks in ranked order, each
\* under its "--- From <filename> ---" header, then the query; with no chunk included it
\* is the preamble and the query.
C17_PromptLayout ==
    rag.pc = "done" =>
        LET n == Len(rag.context_parts)
            p == rag.prompt
        IN  /\ Len(p) = 1 + 5 * n + 3
            /\ p[1] = SystemPrompt
            /\ \A i \in 1..n :
                   /\ p[5 * i - 3] = "\n--- From "
                   /\ p[5 * i - 2] = rag.relevant_chunks[i].metadata.filename
                   /\ p[5 * i - 1] = " ---\n"
                   /\ p[5 * i] = rag.relevant_chunks[i].chunk
                   /\ p[5 * i + 1] = "\n"
            /\ SubSeq(p, 5 * n + 2, 5 * n + 4) = <<"\n\nQuestion: ", rag.query, "\n\nAnswer:">>

\* C17 witness: two chunks of different files are included, in ranked order
C17_Witness ==
    /\ rag.pc = "done"
    /\ Len(rag.context_parts) = 2
    /\ rag.relevant_chunks[1] # rag.relevant_chunks[2]
    /\ Len(rag.prompt) = 14

\* C17, the case of no chunk: nothing was supplied, or nothing fitted
C17_WitnessNoChunk ==
    /\ rag.pc = "done"
    /\ rag.relevant_chunks # <<>>
    /\ rag.context_parts = <<>>
    /\ rag.prompt = <<SystemPrompt, "\n\nQuestion: ", rag.query, "\n\nAnswer:">>

\* =====================================================================
\* VectorDatabase: search on one thread while add_documents runs on another
\* =====================================================================
\* add_documents up to and including self.index.add(embeddings): one row of the
\* instance's dimension with its chunk and its metadata record
AddStart(row, chunk, record) ==
    LET ix == IF self_index = NoIndex THEN create_index ELSE self_index
    IN  /\ adding.pc = "idle"
        /\ Ntotal(ix) + 1 <= MaxVectors
        /\ self_index' = [ix EXCEPT !.vecs = Append(@, row)]
        /\ adding' = [pc |-> "indexed", rows |-> <<row>>, chunks |-> <<chunk>>, documents |-> <<record>>]
        /\ UNCHANGED <<embedding_dimension, self_chunks, self_documents, disk, call>>
        /\ UNCHANGED <<save_pc, damaged, snapshots, prior, restarts, rag>>
        /\ UNCHANGED chunkVars

\* self.chunks.extend(chunks)
AddExtendChunks ==
    /\ adding.pc = "indexed"
    /\ self_chunks' = self_chunks \o adding.chunks
    /\ adding' = [adding EXCEPT !.pc = "chunked"]
    /\ UNCHANGED <<embedding_dimension, self_index, self_documents, disk, call>>
    /\ UNCHANGED <<save_pc, damaged, snapshots, prior, restarts, rag>>
    /\ UNCHANGED chunkVars

\* self.documents.extend(document_metadata); add_documents returns
AddExtendDocuments ==
    /\ adding.pc = "chunked"
    /\ self_documents' = self_documents \o adding.documents
    /\ adding' = NoAdd
    /\ call' = [op |-> "add", arg |-> <<embedding_dimension, 1, 1, 1>>, raised |-> FALSE, ret |-> None]
    /\ UNCHANGED <<embedding_dimension, self_index, self_chunks, disk>>
    /\ UNCHANGED <<save_pc, damaged, snapshots, prior, restarts, rag>>
    /\ UNCHANGED chunkVars

\* search(query_embedding, k) on the other thread, with a query of the instance's dimension
ConcSearch == \E q \in Vectors(embedding_dimension), k \in 1..MaxK : Search(q, k)

\* an add_documents call is started on the adding thread
ConcAdd ==
    \E row \in Vectors(embedding_dimension), chunk \in ChunkTexts, f \in Filenames :
        AddStart(row, chunk, [filename |-> f])

ConcNext ==
    \/ ConcAdd
    \/ AddExtendChunks
    \/ AddExtendDocuments
    \/ ConcSearch

\* one instance, aligned add_documents calls one at a time, searches at any moment
ConcInit == ChunkIdle /\ DBInit /\ AuxIdle
ConcSpec == ConcInit /\ [][ConcNext]_vars

\* C18: a search that runs while an add_documents call is in flight observes the
\* complete state before the add or the complete state after it: it does not raise, and
\* it returns as many results as a search of one of those two states returns.
C18_SearchSeesWholeAdd ==
    [][(/\ call'.op = "search"
        /\ adding.pc # "idle"
        /\ UNCHANGED <<self_index, self_chunks, self_documents, adding>>)
         => (/\ ~call'.raised
             /\ Len(call'.ret) \in {Min(call'.arg[2], Ntotal(self_index) - Len(adding.rows)),
                                    Min(call'.arg[2], Ntotal(self_index))})]_vars

\* =====================================================================
\* Parameter validation
\* =====================================================================
\* C19: chunk_text rejects invalid parameters (overlap >= chunk_size, or chunk_size <= 0)
\* at once with a configuration error: a call with such parameters produces no chunks.
C19_InvalidParamsRejected ==
    (pc = "done" /\ ~ValidParams) => chunks = <<>>

\* =====================================================================
\* DocumentPipeline.process_and_index_documents
\* =====================================================================
MaxIndexed == 1          \* a run starts only while the index holds at most this many entries

CHUNK_SIZE == 500        \* config.CHUNK_SIZE, its default
CHUNK_OVERLAP == 50      \* config.CHUNK_OVERLAP, its default

RECURSIVE ScanFrom(_, _, _, _)
\* the scan loop of chunk_text from window start s on: the chunks it appends
ScanFrom(t, size, ov, s) ==
    IF s >= Len(t) THEN <<>>
    ELSE LET end == WindowEnd(t, s, size)
             kept == StripRange(t, s, end)
             chunk == Slice(t, kept[1], kept[2])
             rest == ScanFrom(t, size, ov, NewStart(s, end, ov))
         IN  IF chunk # <<>> THEN <<chunk>> \o rest ELSE rest

\* chunk_text(t, size, ov), the list it returns
ChunkTextOf(t, size, ov) == IF Len(t) <= size THEN <<t>> ELSE ScanFrom(t, size, ov, 0)

\* the list that the step-by-step call returns is the list computed at once
ChunkTextAgrees == pc = "done" => chunks = ChunkTextOf(text, chunk_size, overlap)

\* an optional int argument: left at None, or given
NoArg == [given |-> FALSE, value |-> 0]
Arg(v) == [given |-> TRUE, value |-> v]

\* arg or default: None and 0 are both replaced by the default
OrDefault(arg, default) == IF arg.given /\ arg.value # 0 THEN arg.value ELSE default

\* texts that extract_text_from_pdf returns: cleaned, stripped and not empty
DocTexts == {<<"a">>, <<"a", ".", "a">>, <<"a", " ", "a">>}

\* what process_all_pdfs returns: one record per file of the directory, in listing order
DocumentLists ==
    {ds \in SeqsUpTo([filename : Filenames, filepath : {"pdf_dir"}, text : DocTexts, length : 1..MaxLen],
                     Cardinality(Filenames)) :
        /\ \A i \in 1..Len(ds) : ds[i].length = Len(ds[i].text)
        /\ \A i, j \in 1..Len(ds) : i # j => ds[i].filename # ds[j].filename}

\* embed_texts: one normalized vector of dimension dim per text, the same for the same text
Embed(t, dim) == [k \in 1..dim |-> IF k = (Len(t) % dim) + 1 THEN 1 ELSE 0]

\* chunk_id counted from 1
RecordOfOneBased(doc, doc_chunks, i) ==
    [filename |-> doc.filename, filepath |-> doc.filepath, chunk_id |-> i,
     total_chunks |-> Len(doc_chunks), chunk_length |-> Len(doc_chunks[i]),
     document_length |-> doc.length]

\* the metadata record of the chunk at position i (1-based) of doc_chunks; enumerate
\* counts from 0
RecordOf(doc, doc_chunks, i) ==
    [filename |-> doc.filename, filepath |-> doc.filepath, chunk_id |-> i - 1,
     total_chunks |-> Len(doc_chunks), chunk_length |-> Len(doc_chunks[i]),
     document_length |-> doc.length]

RECURSIVE ChunkDocuments(_, _, _, _, _)
\* for doc in documents, from document j on: all_chunks and chunk_metadata extended by
\* the chunks of each document and their records
ChunkDocuments(documents, size, ov, j, acc) ==
    IF j > Len(documents) THEN acc
    ELSE LET doc == documents[j]
             doc_chunks == ChunkTextOf(doc.text, size, ov)
         IN  ChunkDocuments(documents, size, ov, j + 1,
                 [all_chunks |-> acc.all_chunks \o doc_chunks,
                  chunk_metadata |-> acc.chunk_metadata \o
                                     [i \in 1..Len(doc_chunks) |-> RecordOf(doc, doc_chunks, i)]])

\* process_and_index_documents(chunk_size, chunk_overlap) over the documents found in
\* the directory: chunk, embed, add_documents, save
ProcessAndIndex(documents, size_arg, overlap_arg) ==
    /\ Len(self_chunks) <= MaxIndexed
    /\ \E out \in {ChunkDocuments(documents, OrDefault(size_arg, CHUNK_SIZE),
                                  OrDefault(overlap_arg, CHUNK_OVERLAP), 1,
                                  [all_chunks |-> <<>>, chunk_metadata |-> <<>>])} :
        \* embeddings = embed_texts(all_chunks); add_documents appends; save writes
        \E new \in {[index |-> [(IF self_index = NoIndex THEN create_index ELSE self_index)
                                   EXCEPT !.vecs = @ \o [i \in 1..Len(out.all_chunks) |->
                                                         Embed(out.all_chunks[i], embedding_dimension)]],
                     chunks |-> self_chunks \o out.all_chunks,
                     documents |-> self_documents \o out.chunk_metadata]} :
            IF documents = <<>>
            THEN \* "No documents found to process"
                 UNCHANGED <<self_index, self_chunks, self_documents, disk>>
            ELSE /\ self_index' = new.index
                 /\ self_chunks' = new.chunks
                 /\ self_documents' = new.documents
                 /\ disk' = [index |-> new.index,
                             metadata |-> MetadataOf(new.chunks, new.documents, embedding_dimension),
                             chunks |-> PickleOf(new.chunks, new.documents)]
    /\ call' = [op |-> "process", arg |-> <<documents, size_arg, overlap_arg>>,
                raised |-> FALSE, ret |-> None, before |-> Len(self_chunks)]
    /\ UNCHANGED embedding_dimension
    /\ UNCHANGED auxVars
    /\ UNCHANGED chunkVars

PipelineNext ==
    /\ Len(self_chunks) <= MaxIndexed
    /\ \E documents \in DocumentLists,
          size_arg \in {NoArg} \cup {Arg(v) : v \in 0..MaxChunkSize},
          overlap_arg \in {NoArg} \cup {Arg(v) : v \in 0..MaxOverlap} :
           ProcessAndIndex(documents, size_arg, overlap_arg)

\* a pipeline whose VectorDatabase has the dimension of its embedding model, run over
\* any directory content with any arguments, again while the index is small
PipelineInit == ChunkIdle /\ DBInit /\ AuxIdle /\ embedding_dimension = MaxDim
PipelineSpec == PipelineInit /\ [][PipelineNext]_vars

\* the number of entries that the documents before document j contribute
RECURSIVE Offset(_, _, _, _)
Offset(documents, size, ov, j) ==
    IF j <= 1 THEN 0
    ELSE Offset(documents, size, ov, j - 1) + Len(ChunkTextOf(documents[j - 1].text, size, ov))

\* C20: process_and_index_documents appends the entries in document order and, within a
\* document, in chunk order; the record stored with a chunk has chunk_id equal to the
\* chunk's 0-based position within its document, total_chunks equal to the number of
\* chunks chunk_text produced for that document, and chunk_length equal to the length
\* of the stored chunk text.
C20_PipelineOrderAndMetadata ==
    call.op = "process" =>
        LET documents == call.arg[1]
            size == OrDefault(call.arg[2], CHUNK_SIZE)
            ov == OrDefault(call.arg[3], CHUNK_OVERLAP)
            n0 == call.before
            produced(j) == ChunkTextOf(documents[j].text, size, ov)
        IN  /\ Len(self_chunks) = n0 + Offset(documents, size, ov, Len(documents) + 1)
            /\ Len(self_documents) = Len(self_chunks)
            /\ Ntotal(self_index) = Len(self_chunks)
            /\ \A j \in 1..Len(documents) : \A i \in 1..Len(produced(j)) :
                   LET pos == n0 + Offset(documents, size, ov, j) + i
                   IN  /\ self_chunks[pos] = produced(j)[i]
                       /\ self_documents[pos].filename = documents[j].filename
                       /\ self_documents[pos].chunk_id = i - 1
                       /\ self_documents[pos].total_chunks = Len(produced(j))
                       /\ self_documents[pos].chunk_length = Len(self_chunks[pos])

\* C20 witness: a second run appended, after the entries of the first, two documents of
\* which the first gave several chunks
C20_Witness ==
    /\ call.op = "process"
    /\ call.before > 0
    /\ Len(call.arg[1]) = 2
    /\ Len(self_chunks) >= call.before + 3
    /\ self_documents[call.before + 1].total_chunks >= 2
    /\ self_documents[call.before + 2].chunk_id = 1

\* =====================================================================
\* DocumentPipeline.search_documents
\* =====================================================================
\* query strings given to search_documents
QueryTexts == {<<"a">>, <<"a", "a">>}

\* the test written without the count: only a missing index is caught
NoEntriesNoneOnly(ix) == ix = NoIndex

\* self.vector_db.index is None or self.vector_db.index.ntotal == 0
NoEntries(ix) == ix = NoIndex \/ Ntotal(ix) = 0

\* search_documents(query, num_results); embed_fails: embed_query raises.
\* 'embedded' and 'embed_failed' record whether embed_query was called and whether it raised.
SearchDocuments(query, num_results, embed_fails) ==
    /\ IF NoEntries(self_index)
       THEN call' = [op |-> "search_documents", arg |-> <<query, num_results>>,
                     raised |-> FALSE, ret |-> <<>>, embedded |-> FALSE, embed_failed |-> FALSE]
       ELSE IF embed_fails
       THEN \* embed_query prints and re-raises; search_documents has no handler
            call' = [op |-> "search_documents", arg |-> <<query, num_results>>,
                     raised |-> TRUE, ret |-> None, embedded |-> TRUE, embed_failed |-> TRUE]
       ELSE \E o \in SearchOutcomes(Embed(query, embedding_dimension), num_results) :
                call' = [op |-> "search_documents", arg |-> <<query, num_results>>,
                         raised |-> o.raised, ret |-> o.ret, embedded |-> TRUE, embed_failed |-> FALSE]
    /\ UNCHANGED <<embedding_dimension, self_index, self_chunks, self_documents, disk>>
    /\ UNCHANGED chunkVars
    /\ UNCHANGED auxVars

\* a query through the pipeline, the embedding collaborator working or not
QueryDocuments ==
    \E query \in QueryTexts, num_results \in 1..MaxK, embed_fails \in BOOLEAN :
        SearchDocuments(query, num_results, embed_fails)

\* add_documents with any arguments
QueryAdd ==
    \E e \in Embeddings, c \in SeqsUpTo(ChunkTexts, MaxBatch), m \in SeqsUpTo(MetadataRecords, MaxBatch) :
        AddDocuments(e, c, m)

\* search on the VectorDatabase itself
QuerySearch == \E d \in 1..MaxDim : \E q \in Vectors(d), k \in 1..MaxK : Search(q, k)

QueryNext ==
    \/ QueryAdd
    \/ QuerySearch
    \/ QueryDocuments

\* a pipeline's VectorDatabase under any adds, searched directly and through
\* search_documents
QueryInit == ChunkIdle /\ DBInit /\ AuxIdle
QuerySpec == QueryInit /\ [][QueryNext]_vars

\* C21: searching an index with no entries (never populated, or allocated but holding
\* zero vectors) returns an empty list without raising, from search and from
\* search_documents, and search_documents does not call the embedding collaborator.
C21_EmptyIndexEmptyResult ==
    (call.op \in {"search", "search_documents"} /\ (self_index = NoIndex \/ Ntotal(self_index) = 0)) =>
        /\ ~call.raised
        /\ call.ret = <<>>
        /\ call.op = "search_documents" => ~call.embedded

\* C21 witness: search_documents on an index that is allocated and holds no vector
C21_Witness ==
    /\ call.op = "search_documents"
    /\ self_index.allocated /\ Ntotal(self_index) = 0
    /\ call.ret = <<>> /\ ~call.raised

\* C22: a failure of an external collaborator is returned to the caller as a structured
\* failure result: when embed_query fails inside search_documents, the call returns
\* (it does not raise) and leaves the index unchanged.
C22_EmbeddingFailureIsResult ==
    (call.op = "search_documents" /\ call.embed_failed) => ~call.raised

\* =====================================================================
\* LLMClient: the query and the budget, generate_response
\* =====================================================================
\* C23: the budget consumed before the first chunk is considered is the token cost of
\* the fixed preamble alone, the query being outside the budgeted portion: the included
\* chunks are those of a loop whose total starts at the preamble's cost. (Stated for the
\* counters under which adding the query to the preamble does not lower the count.)
C23_QueryOutsideBudget ==
    (rag.pc = "done" /\ rag.tok.base >= rag.tok.preamble) =>
        rag.context_parts =
            ContextLoop(rag.relevant_chunks, rag.tok, rag.max_context_tokens, 1,
                        [context_parts |-> <<>>, total_tokens |-> rag.tok.preamble]).context_parts

\* generate_response(query, relevant_chunks, max_context_tokens) under the token counter
\* tok; generation_fails: client.chat.completions.create raises
GenerateResponse(query, relevant_chunks, max_context_tokens, tok, generation_fails) ==
    /\ rag.pc = "idle"
    /\ \E out \in {ContextLoop(relevant_chunks, tok, max_context_tokens, 1,
                               [context_parts |-> <<>>, total_tokens |-> tok.base])} :
        rag' = [pc |-> "responded", query |-> query, relevant_chunks |-> relevant_chunks,
                max_context_tokens |-> max_context_tokens, tok |-> tok,
                context_parts |-> out.context_parts, total_tokens |-> out.total_tokens,
                prompt |-> FullPrompt(out.context_parts, query),
                response |->
                    IF generation_fails
                    THEN [success |-> FALSE, error |-> "Error generating response",
                          sources |-> <<>>, chunks_used |-> 0]
                    ELSE [success |-> TRUE, error |-> "",
                          sources |-> [j \in 1..Len(relevant_chunks) |-> relevant_chunks[j].metadata.filename],
                          chunks_used |-> Len(relevant_chunks)]]
    /\ UNCHANGED <<save_pc, damaged, snapshots, prior, restarts, adding>>
    /\ UNCHANGED chunkVars
    /\ UNCHANGED dbVars

GenNext ==
    /\ rag.pc = "idle"
    /\ \E query \in Queries, relevant_chunks \in SeqsUpTo(RankedChunks, MaxRanked),
          max_context_tokens \in 0..MaxBudget, tok \in TokenCounters, generation_fails \in BOOLEAN :
           GenerateResponse(query, relevant_chunks, max_context_tokens, tok, generation_fails)

\* one call of generate_response on any bounded input, the generation call working or not
GenInit == ChunkIdle /\ DBInit /\ AuxIdle /\ embedding_dimension = 1
GenSpec == GenInit /\ [][GenNext]_vars

\* C29: in a successful generate_response result, chunks_used and sources describe
\* exactly the chunks that create_rag_prompt included in the prompt: chunks_used is the
\* number of included chunks and sources are their filenames.
C29_ChunksUsedAreIncluded ==
    (rag.pc = "responded" /\ rag.response.success) =>
        /\ rag.response.chunks_used = Len(rag.context_parts)
        /\ rag.response.sources =
               [j \in 1..Len(rag.context_parts) |-> rag.relevant_chunks[j].metadata.filename]

\* =====================================================================
\* VectorDatabase: what a completed save leaves in the header
\* =====================================================================
\* VectorDatabase(db_path, d) is constructed on the same path between two calls, nothing
\* having stopped half-way
FreshInstance == save_pc = "idle" /\ \E d \in 1..MaxDim : Restart(d, FALSE)

InstancesNext ==
    \/ AddAligned
    \/ SaveBegin
    \/ SaveWriteIndex
    \/ SaveWriteMetadata
    \/ SaveWriteChunks
    \/ FreshInstance
    \/ LoadIdle

\* instances on one path, one after the other, every save() running to its end
InstancesInit == ChunkIdle /\ DBInit /\ AuxIdle
InstancesSpec == InstancesInit /\ [][InstancesNext]_vars

\* C24: after every save that completed, reached by any sequence of constructor,
\* add_documents and load calls, the embedding_dimension of metadata.json is the
\* dimension of the vectors written to faiss.index, and its total_chunks is their number.
C24_HeaderDescribesVectors ==
    (call.op = "save" /\ save_pc = "idle" /\ self_index # NoIndex) =>
        /\ disk.metadata.embedding_dimension = disk.index.d
        /\ disk.metadata.total_chunks = Ntotal(disk.index)

\* =====================================================================
\* VectorDatabase: which chunk and record a stored vector answers with
\* =====================================================================
\* the chunk text and the record a caller hands over together with vector v, where the
\* call has one at the position of v: the pairing lets a state tell which call position
\* an entry came from
ChunkSuppliedWith(v) == IF v[1] = 0 THEN "c1" ELSE "c2"
RecordSuppliedWith(v) == [filename |-> IF v[1] = 0 THEN "f1" ELSE "f2"]

\* the first n entries of the list a caller builds for the rows
SuppliedChunks(rows, n) == [j \in 1..n |-> ChunkSuppliedWith(rows[j])]
SuppliedRecords(rows, n) == [j \in 1..n |-> RecordSuppliedWith(rows[j])]

\* add_documents(embeddings, chunks, document_metadata), the lists as long as the caller
\* made them
PairedAdd ==
    \E e \in Embeddings : \E nc \in 0..Len(e.rows), nm \in 0..Len(e.rows) :
        AddDocuments(e, SuppliedChunks(e.rows, nc), SuppliedRecords(e.rows, nm))

PairedSearch == \E d \in 1..MaxDim : \E q \in Vectors(d), k \in 1..MaxK : Search(q, k)

PairedNext == PairedAdd \/ PairedSearch

\* one instance, add_documents and search in any order
PairedInit == ChunkIdle /\ DBInit /\ AuxIdle
PairedSpec == PairedInit /\ [][PairedNext]_vars

\* C25: every entry search returns for a stored vector carries the chunk text and the
\* record that were supplied at the position of that vector in the add_documents call
\* that stored it.
C25_ResultsAligned ==
    (call.op = "search" /\ ~call.raised) =>
        \A i \in 1..Len(call.ret) :
            /\ call.ret[i].chunk = ChunkSuppliedWith(self_index.vecs[call.ret[i].sequence_index + 1])
            /\ call.ret[i].metadata = RecordSuppliedWith(self_index.vecs[call.ret[i].sequence_index + 1])

\* =====================================================================
\* chunk_text: the chunk that reaches the end of the text
\* =====================================================================
\* the windows scanned so far that end at len(text) and appended a chunk
EmittedEndWindows ==
    {i \in 1..Len(windows) :
        /\ windows[i][2] = Len(text)
        /\ \E kept \in {StripRange(text, windows[i][1], windows[i][2])} :
               Slice(text, kept[1], kept[2]) # <<>>}

\* C27: for a text longer than chunk_size and valid parameters, at most one emitted chunk
\* has a window ending at len(text), and no emitted chunk is a proper suffix of the chunk
\* emitted before it.
C27_ScanStopsAtEnd ==
    (Len(text) > chunk_size /\ chunk_size > 0 /\ overlap >= 0 /\ overlap < chunk_size) =>
        /\ Cardinality(EmittedEndWindows) <= 1
        /\ \A i \in 1..(Len(spans) - 1) :
               ~(spans[i + 1][2] = spans[i][2] /\ spans[i + 1][1] > spans[i][1])

\* =====================================================================
\* DocumentPipeline: the chunking parameters a run uses
\* =====================================================================
\* C28: a run given chunk_size and chunk_overlap chunks every document with exactly those
\* values, chunk_overlap = 0 included; a parameter that is not given takes the default
\* of config.
C28_SuppliedParametersUsed ==
    (call.op = "process" /\ call.arg[2].given /\ call.arg[2].value > 0) =>
        \E size \in {call.arg[2].value} :
        \E ov \in {IF call.arg[3].given THEN call.arg[3].value ELSE CHUNK_OVERLAP} :
            \A j \in 1..Len(call.arg[1]) :
                \E produced \in {ChunkTextOf(call.arg[1][j].text, size, ov)} :
                    \A i \in 1..Len(produced) :
                        \E pos \in {call.before + Offset(call.arg[1], size, ov, j) + i} :
                            /\ pos <= Len(self_chunks)
                            /\ self_chunks[pos] = produced[i]

\* =====================================================================
\* DocumentPipeline: what a run leaves of the entries it found
\* =====================================================================
\* C30: after a run over a collection that is not empty, the index and the saved files
\* hold exactly one entry per chunk of that collection, whatever the index held when the
\* run began.
C30_RunReplacesCollection ==
    (call.op = "process" /\ call.arg[1] # <<>>) =>
        \E n \in {Offset(call.arg[1], OrDefault(call.arg[2], CHUNK_SIZE),
                          OrDefault(call.arg[3], CHUNK_OVERLAP), Len(call.arg[1]) + 1)} :
            /\ Ntotal(self_index) = n
            /\ Len(self_chunks) = n
            /\ Ntotal(disk.index) = n
            /\ disk.metadata.total_chunks = n

\* =====================================================================
\* VectorDatabase: who else holds the records of the store
\* =====================================================================
\* self.documents.extend(document_metadata) keeps the caller's dict objects themselves, and
\* search puts self.documents[idx] itself into the result: a write through either
\* reference is a write to the stored record. The result dict and its 'chunk' string are
\* new objects of the call.

\* the caller sets 'filename' of a record it passed to add_documents earlier
CallerWritesPassedRecord ==
    \E i \in 1..Len(self_documents), f \in Filenames :
        /\ f # self_documents[i].filename
        /\ self_documents' = [self_documents EXCEPT ![i].filename = f]
        /\ call' = [op |-> "write_passed_record", arg |-> <<i, f>>, raised |-> FALSE, ret |-> None]
        /\ UNCHANGED <<embedding_dimension, self_index, self_chunks, disk>>
        /\ UNCHANGED chunkVars /\ UNCHANGED auxVars

\* the caller sets result[j]['metadata']['filename'] of the answer it just got
CallerWritesResultMetadata ==
    /\ call.op = "search" /\ ~call.raised
    /\ \E j \in 1..Len(call.ret), f \in Filenames :
        /\ f # call.ret[j].metadata.filename
        /\ self_documents' = [self_documents EXCEPT ![call.ret[j].sequence_index + 1].filename = f]
        /\ call' = [op |-> "write_result_metadata", arg |-> <<j, f>>, raised |-> FALSE, ret |-> None]
    /\ UNCHANGED <<embedding_dimension, self_index, self_chunks, disk>>
    /\ UNCHANGED chunkVars /\ UNCHANGED auxVars

\* the caller sets result[j]['chunk'] of the answer it just got: the result dict is its own
CallerWritesResultChunk ==
    /\ call.op = "search" /\ ~call.raised
    /\ \E j \in 1..Len(call.ret), c \in ChunkTexts :
        /\ c # call.ret[j].chunk
        /\ call' = [op |-> "write_result_chunk", arg |-> <<j, c>>, raised |-> FALSE, ret |-> None]
    /\ UNCHANGED <<embedding_dimension, self_index, self_chunks, self_documents, disk>>
    /\ UNCHANGED chunkVars /\ UNCHANGED auxVars

OwnerNext ==
    \/ AddAligned
    \/ PairedSearch
    \/ CallerWritesPassedRecord
    \/ CallerWritesResultMetadata
    \/ CallerWritesResultChunk

\* one instance and a caller that keeps what it passed and what it got
OwnerInit == ChunkIdle /\ DBInit /\ AuxIdle
OwnerSpec == OwnerInit /\ [][OwnerNext]_vars

\* a step in which the caller writes to an object it holds, no method of the store running
CallerWrote == call'.op \in {"write_passed_record", "write_result_metadata", "write_result_chunk"}

\* C26: nothing the caller does to a search result, or to the records it passed to
\* add_documents, changes what get_stats and search return afterwards.
C26_StoreExclusivelyOwned ==
    [][CallerWrote =>
          /\ GetStats' = GetStats
          /\ \A d \in 1..MaxDim : \A q \in Vectors(d), k \in 1..MaxK :
                 SearchOutcomes(q, k)' = SearchOutcomes(q, k)]_vars

=============================================================================
